---- MODULE Spec2Model ----
(***************************************************************************)
(* The padded Merkle tree of src/merkle_tree.rs over the Hasher            *)
(* capability of src/hash.rs: construction (MerkleTree::new), proof        *)
(* derivation (MerkleTree::proof) and proof validation                     *)
(* (MerkleProof::validate).                                                *)
(*                                                                         *)
(* Hash values are symbolic: the digest of a byte string is the term that  *)
(* wraps that byte string, so two digests are equal exactly when their     *)
(* preimages are (a collision-free hasher).  An item is a byte string of   *)
(* one symbol; the N bytes of a Hash are one block.                        *)
(***************************************************************************)
EXTENDS Integers, Sequences, FiniteSets, TLC

\* Longest item list of distinct items (33 items give 64 leaves).
MaxItems == 33
\* Item lists up to this length are drawn with every combination of values.
MaxFullLen == 3
\* Number of item values the fully enumerated item lists draw from.
NumItemValues == 2

VARIABLES
    pc,              \* idle, new, built, proof, proved, validated, panic, wrapped
    items,           \* the slice handed to MerkleTree::new
    nodes,           \* MerkleTree.nodes
    leaf_count,      \* MerkleTree.leaf_count
    index,           \* `index` local of new / of proof (0-based buffer position)
    level_len,       \* `level_len` local of new / of proof
    prev_level_len,  \* `prev_level_len` local of proof
    path,            \* `path` local of proof
    leaf,            \* the index argument proof was called with
    iterations,      \* loop iterations executed by the running / last loop
    proof_,          \* the MerkleProof returned by proof
    vproof,          \* the MerkleProof validate was called on
    vitem,           \* the item validate was called with
    valid            \* the boolean returned by validate

vars == <<pc, items, nodes, leaf_count, index, level_len, prev_level_len, path,
          leaf, iterations, proof_, vproof, vitem, valid>>

----------------------------------------------------------------------------
\* Rust slices and Vecs are 0-based.
At(s, i) == s[i + 1]

Last(s) == s[Len(s)]

\* Hasher::hash (sha3.rs): a deterministic, collision-free digest of a byte string.
hash(value) == <<"H", value>>

\* Hasher::concat_hashes: the digest of left's bytes followed by right's bytes.
concat_hashes(left, right) == hash(<<left>> \o <<right>>)

\* An item as a byte string.
Item(v) == <<v>>

\* An item that is in no item list ("foo" in the tests).
Foo == Item(0)

RECURSIVE Pow2AtLeast(_, _)
Pow2AtLeast(p, n) == IF p >= n THEN p ELSE Pow2AtLeast(2 * p, n)

\* next_power_of_two rounding up even a power of two.
next_power_of_two_strict(n) == Pow2AtLeast(1, n + 1)

\* usize::next_power_of_two: the smallest power of two >= n.
next_power_of_two(n) == Pow2AtLeast(1, n)

\* The leaves padded with the hash of the first item instead of the last.
leaves_of_first(its, last_hash, lc) ==
    [j \in 1..lc |-> IF j <= Len(its) THEN hash(its[j]) ELSE hash(its[1])]

\* items.iter().map(hash).chain(repeat(last_hash)).take(leaf_count)
leaves_of(its, last_hash, lc) ==
    [j \in 1..lc |-> IF j <= Len(its) THEN hash(its[j]) ELSE last_hash]

\* slice.chunks(2): consecutive chunks of two elements, the last one shorter
\* when the length is odd.
chunks2(s) ==
    [c \in 1..((Len(s) + 1) \div 2) |->
        SubSeq(s, 2 * c - 1, IF 2 * c <= Len(s) THEN 2 * c ELSE Len(s))]

\* The two nodes of a chunk hashed in the wrong order.
parent_of_swapped(chunk) == concat_hashes(chunk[2], chunk[1])

\* The closure of the map in new: (chunk[0], chunk[1]) hashed together.
parent_of(chunk) == concat_hashes(chunk[1], chunk[2])

\* nodes[index..end].chunks(2).map(..).collect()
parents_of(level) == [c \in DOMAIN chunks2(level) |-> parent_of(chunks2(level)[c])]

RECURSIVE build_levels(_, _, _)
\* The while loop of new, run to its end on buffer ns from offset idx.
build_levels(ns, idx, ll) ==
    IF ll > 1
        THEN build_levels(ns \o parents_of(SubSeq(ns, idx + 1, idx + ll)),
                          idx + ll, ll \div 2)
        ELSE ns

\* MerkleTree::new on a non-empty item list, as a function of its input.
new(its) ==
    LET lc == next_power_of_two(Len(its)) IN
        [nodes |-> build_levels(leaves_of(its, hash(Last(its)), lc), 0, lc),
         leaf_count |-> lc]

\* The sibling recorded by one iteration of the proof loop.
position_of(ns, i) ==
    IF i % 2 = 0
        THEN [side |-> "Right", hash |-> At(ns, i + 1)]
        ELSE [side |-> "Left", hash |-> At(ns, i - 1)]

\* The buffer positions one iteration of the proof loop reads.
position_read(i) == IF i % 2 = 0 THEN i + 1 ELSE i - 1

\* The index advanced without regard to the offset of the previous level.
next_index_no_prev(i, ll, pll) == i + ll - ((i + 1) \div 2)

\* The index advanced with the half-offset added instead of subtracted.
next_index_plus(i, ll, pll) == i + ll + ((i - pll + 1) \div 2)

\* index + level_len - (index - prev_level_len + 1) / 2
next_index(i, ll, pll) == i + ll - ((i - pll + 1) \div 2)

\* The range assertion off by one.
index_in_range_inclusive(i, lc) == i <= lc

\* assert!(index < self.leaf_count)
index_in_range(i, lc) == i < lc

RECURSIVE fold_path(_, _)
\* The for loop of validate over a path, starting from hash h.
fold_path(h, p) ==
    IF p = <<>> THEN h
    ELSE fold_path(IF Head(p).side = "Left"
                       THEN concat_hashes(Head(p).hash, h)
                       ELSE concat_hashes(h, Head(p).hash),
                   Tail(p))

\* validate accepting an empty path without comparing with the root.
validate_empty_path_ok(prf, item) ==
    prf.path = <<>> \/ fold_path(hash(item), prf.path) = prf.root

\* MerkleProof::validate
validate(prf, item) == fold_path(hash(item), prf.path) = prf.root

\* MerkleTree::root
root(ns) == Last(ns)

----------------------------------------------------------------------------
\* The item lists new is called with: the empty list, lists of distinct
\* items, and every list over a few values up to a small length.
DistinctItems(n) == [j \in 1..n |-> Item(j)]

RECURSIVE ListsOfLen(_)
ListsOfLen(n) ==
    IF n = 0 THEN {<<>>}
    ELSE {Append(l, Item(v)) : l \in ListsOfLen(n - 1), v \in 1..NumItemValues}

ItemLists ==
    {DistinctItems(n) : n \in 0..MaxItems}
        \cup UNION {ListsOfLen(n) : n \in 0..MaxFullLen}

\* The items validate is tried with.
Candidates(its) == {Foo} \cup {its[j] : j \in 1..Len(its)}

None == <<>>

Init ==
    /\ pc = "idle"
    /\ items = <<>>
    /\ nodes = <<>>
    /\ leaf_count = 0
    /\ index = 0
    /\ level_len = 0
    /\ prev_level_len = 0
    /\ path = <<>>
    /\ leaf = 0
    /\ iterations = 0
    /\ proof_ = None
    /\ vproof = None
    /\ vitem = None
    /\ valid = FALSE

\* MerkleTree::new up to the loop: the empty-list panic, leaf_count, the leaves.
NewStart(its) ==
    /\ pc = "idle"
    /\ items' = its
    /\ IF its = <<>>
          THEN /\ pc' = "panic"
               /\ UNCHANGED <<nodes, leaf_count, index, level_len>>
          ELSE /\ pc' = "new"
               /\ leaf_count' = next_power_of_two(Len(its))
               /\ nodes' = leaves_of(its, hash(Last(its)), leaf_count')
               /\ index' = 0
               /\ level_len' = leaf_count'
    /\ iterations' = 0
    /\ UNCHANGED <<prev_level_len, path, leaf, proof_, vproof, vitem, valid>>

\* One iteration of the while loop of new; slicing past the buffer or a
\* chunk of one node panics.
NewLevel ==
    /\ pc = "new"
    /\ level_len > 1
    /\ LET end == index + level_len IN
        IF end > Len(nodes)
              \/ \E c \in DOMAIN chunks2(SubSeq(nodes, index + 1, end)) :
                     Len(chunks2(SubSeq(nodes, index + 1, end))[c]) < 2
           THEN /\ pc' = "panic"
                /\ UNCHANGED <<nodes, index, level_len, iterations>>
           ELSE /\ nodes' = nodes \o parents_of(SubSeq(nodes, index + 1, end))
                /\ index' = index + level_len
                /\ level_len' = level_len \div 2
                /\ iterations' = iterations + 1
                /\ pc' = pc
    /\ UNCHANGED <<items, leaf_count, prev_level_len, path, leaf, proof_, vproof,
                   vitem, valid>>

\* The loop of new ends and the tree is returned.
NewDone ==
    /\ pc = "new"
    /\ level_len <= 1
    /\ pc' = "built"
    /\ UNCHANGED <<items, nodes, leaf_count, index, level_len, prev_level_len, path,
                   leaf, iterations, proof_, vproof, vitem, valid>>

\* MerkleTree::proof up to the loop: the range assertion and the locals.
ProofStart(i) ==
    /\ pc = "built"
    /\ leaf' = i
    /\ IF index_in_range(i, leaf_count)
          THEN /\ pc' = "proof"
               /\ index' = i
               /\ prev_level_len' = 0
               /\ level_len' = leaf_count
               /\ path' = <<>>
               /\ iterations' = 0
          ELSE /\ pc' = "panic"
               /\ UNCHANGED <<index, prev_level_len, level_len, path, iterations>>
    /\ UNCHANGED <<items, nodes, leaf_count, proof_, vproof, vitem, valid>>

\* One iteration of the while loop of proof.  Reading outside the buffer
\* panics.  The subtraction index - prev_level_len underflowing panics in a
\* build with overflow checks and wraps around in a build without them: the
\* call then goes on with a wrapped index ("wrapped").
ProofStep ==
    /\ pc = "proof"
    /\ level_len > 1
    /\ IF position_read(index) < 0 \/ position_read(index) >= Len(nodes)
          THEN /\ pc' = "panic"
               /\ UNCHANGED <<index, prev_level_len, level_len, path, iterations>>
          ELSE IF index < prev_level_len
          THEN /\ pc' \in {"panic", "wrapped"}
               /\ path' = Append(path, position_of(nodes, index))
               /\ UNCHANGED <<index, prev_level_len, level_len, iterations>>
          ELSE /\ path' = Append(path, position_of(nodes, index))
               /\ index' = next_index(index, level_len, prev_level_len)
               /\ prev_level_len' = level_len
               /\ level_len' = level_len \div 2
               /\ iterations' = iterations + 1
               /\ pc' = pc
    /\ UNCHANGED <<items, nodes, leaf_count, leaf, proof_, vproof, vitem, valid>>

\* The loop of proof ends and the MerkleProof is returned.
ProofDone ==
    /\ pc = "proof"
    /\ level_len <= 1
    /\ proof_' = [root |-> root(nodes), path |-> path]
    /\ pc' = "proved"
    /\ UNCHANGED <<items, nodes, leaf_count, index, level_len, prev_level_len, path,
                   leaf, iterations, vproof, vitem, valid>>

\* The hashes a forger can put into a proof: any node of the tree, or the
\* hash of a foreign item.
KnownHashes == {nodes[j] : j \in 1..Len(nodes)} \cup {hash(Foo)}

Flip(side) == IF side = "Left" THEN "Right" ELSE "Left"

\* The proofs that differ from p in one path entry's hash, in one path
\* entry's tag, or in the root.
Altered(p) ==
    UNION {{[p EXCEPT !.path[k].hash = h] : h \in KnownHashes \ {p.path[k].hash}} :
              k \in 1..Len(p.path)}
    \cup {[p EXCEPT !.path[k].side = Flip(@)] : k \in 1..Len(p.path)}
    \cup {[p EXCEPT !.root = h] : h \in KnownHashes \ {p.root}}

\* MerkleProof::validate on the proof as returned.
Validate(item) ==
    /\ pc = "proved"
    /\ vproof' = proof_
    /\ vitem' = item
    /\ valid' = validate(proof_, item)
    /\ pc' = "validated"
    /\ UNCHANGED <<items, nodes, leaf_count, index, level_len, prev_level_len, path,
                   leaf, iterations, proof_>>

\* MerkleProof::validate of leaf i's own item on a proof that was altered
\* after proof(i) returned it.
ValidateAltered(p) ==
    /\ pc = "proved"
    /\ vproof' = p
    /\ vitem' = IF leaf < Len(items) THEN items[leaf + 1] ELSE Last(items)
    /\ valid' = validate(p, vitem')
    /\ pc' = "validated"
    /\ UNCHANGED <<items, nodes, leaf_count, index, level_len, prev_level_len, path,
                   leaf, iterations, proof_>>

Next ==
    \/ \E its \in ItemLists : NewStart(its)
    \/ NewLevel
    \/ NewDone
    \/ \E i \in 0..(leaf_count + 1) : ProofStart(i)
    \/ ProofStep
    \/ ProofDone
    \/ \E item \in Candidates(items) : Validate(item)
    \/ /\ pc = "proved"
       /\ \E p \in Altered(proof_) : ValidateAltered(p)

Spec == Init /\ [][Next]_vars

----------------------------------------------------------------------------
(* Reference definitions the properties are stated with. *)

RECURSIVE Pow2(_)
Pow2(k) == IF k = 0 THEN 1 ELSE 2 * Pow2(k - 1)

RECURSIVE Log2(_)
Log2(n) == IF n <= 1 THEN 0 ELSE 1 + Log2(n \div 2)

IsPow2(n) == n >= 1 /\ Pow2(Log2(n)) = n

\* The item behind leaf i (0-based): the last item for the padded leaves.
EffectiveItem(its, i) == IF i < Len(its) THEN its[i + 1] ELSE Last(its)

\* Buffer offset of level k of a tree with lc leaves (level 0 = leaves).
LevelStart(lc, k) == 2 * lc - (2 * lc) \div Pow2(k)

\* Position of the ancestor of leaf i in level k, and of a node's sibling.
Ancestor(i, k) == i \div Pow2(k)
Sibling(p) == IF p % 2 = 0 THEN p + 1 ELSE p - 1

RECURSIVE RefNode(_, _, _)
\* The node at position p of level k of the Merkle tree over the padded leaves.
RefNode(its, k, p) ==
    IF k = 0 THEN hash(EffectiveItem(its, p))
    ELSE concat_hashes(RefNode(its, k - 1, 2 * p), RefNode(its, k - 1, 2 * p + 1))

\* The proof path of leaf i in the reference tree, leaf to root.
RefPath(its, lc, i) ==
    [k \in 1..Log2(lc) |->
        [side |-> IF Ancestor(i, k - 1) % 2 = 0 THEN "Right" ELSE "Left",
         hash |-> RefNode(its, k - 1, Sibling(Ancestor(i, k - 1)))]]

\* The item list right-padded with its last item up to the next power of two.
Padded(its) ==
    [j \in 1..next_power_of_two(Len(its)) |-> EffectiveItem(its, j - 1)]

\* new has just returned a tree.
Built == pc = "built"

\* validate has run on the proof exactly as proof returned it.
ValidatedGenuine == pc = "validated" /\ vproof = proof_

\* validate has run on a proof with one altered path entry or an altered root.
ValidatedAltered == pc = "validated" /\ vproof # proof_

----------------------------------------------------------------------------
\* C1 (completeness): whenever validate runs on the proof proof(i) returned,
\* with the effective item of leaf i, it returns true.
C1_Completeness ==
    ValidatedGenuine /\ vitem = EffectiveItem(items, leaf) => valid

\* C2 (proof path): the path proof(i) returns has log2(leaf_count) entries,
\* and entry k is the node at position ((i >> k) XOR 1) of level k of the
\* buffer, tagged Right when (i >> k) is even and Left when it is odd.
C2_PathIsSiblings ==
    pc = "proved" =>
        /\ Len(proof_.path) = Log2(leaf_count)
        /\ \A k \in 0..(Log2(leaf_count) - 1) :
              proof_.path[k + 1] =
                  [side |-> IF Ancestor(leaf, k) % 2 = 0 THEN "Right" ELSE "Left",
                   hash |-> At(nodes, LevelStart(leaf_count, k)
                                          + Sibling(Ancestor(leaf, k)))]

\* C4 (tampered proof): validate of the original item on a proof with one
\* altered path entry (another sibling hash, or a flipped tag) or with
\* another root returns false.
C4_AlteredProofRejected ==
    ValidatedAltered /\ vitem = EffectiveItem(items, leaf) => ~valid

\* C3 (wrong item): validate on the proof proof(i) returned, with an item
\* whose hash differs from leaf i's hash, returns the boolean false.
C3_WrongItemRejected ==
    /\ valid \in BOOLEAN
    /\ ValidatedGenuine /\ hash(vitem) # At(nodes, leaf) => valid = FALSE

\* A proof of three or more entries has been validated against another item
\* of the same tree.
C3_Witness ==
    /\ ValidatedGenuine
    /\ Len(vproof.path) >= 3
    /\ hash(vitem) # At(nodes, leaf)
    /\ \E j \in 1..Len(items) : items[j] = vitem
    /\ valid = FALSE

\* C5 (construction): every node of level k+1 is concat_hashes of the two
\* nodes below it, the levels follow each other in the buffer from the leaves
\* to the root, and root() is the Merkle root of the padded leaf sequence.
C5_ReferenceTree ==
    Built =>
        /\ Len(nodes) = 2 * leaf_count - 1
        /\ \A k \in 0..(Log2(leaf_count) - 1) :
              \A q \in 0..(leaf_count \div Pow2(k + 1) - 1) :
                  At(nodes, LevelStart(leaf_count, k + 1) + q) =
                      concat_hashes(At(nodes, LevelStart(leaf_count, k) + 2 * q),
                                    At(nodes, LevelStart(leaf_count, k) + 2 * q + 1))
        /\ root(nodes) = RefNode(items, Log2(leaf_count), 0)
        /\ Len(items) = 1 => root(nodes) = hash(items[1])
        /\ Len(items) = 2 =>
              root(nodes) = concat_hashes(hash(items[1]), hash(items[2]))
        /\ Len(items) = 3 =>
              root(nodes) =
                  concat_hashes(concat_hashes(hash(items[1]), hash(items[2])),
                                concat_hashes(hash(items[3]), hash(items[3])))

\* The tree of three distinct items has been built.
C5_Witness ==
    /\ pc = "built"
    /\ Len(items) = 3
    /\ items[1] # items[2] /\ items[2] # items[3] /\ items[1] # items[3]
    /\ Len(nodes) = 7

\* C6 (padding): leaf j is the hash of item j, and of the last item from
\* items.len() on; the tree equals the tree built from the item list padded
\* with its last item up to the next power of two.
C6_PaddingEquivalence ==
    Built =>
        /\ \A j \in 0..(leaf_count - 1) :
              At(nodes, j) = hash(IF j < Len(items) THEN items[j + 1] ELSE Last(items))
        /\ leaf_count = new(Padded(items)).leaf_count
        /\ nodes = new(Padded(items)).nodes

\* A tree with padded leaves has been built.
C6_Witness ==
    /\ pc = "built"
    /\ ~IsPow2(Len(items))
    /\ Len(items) >= 5
    /\ At(nodes, leaf_count - 1) = hash(Last(items))

\* C7 (preconditions): new panics exactly when the item list is empty, and
\* then builds nothing; proof(index) panics exactly when index >= leaf_count,
\* and then returns no proof; any smaller index, padded ones included, gets
\* its proof.
C7_FailFast ==
    /\ pc = "panic" <=> (pc # "idle" /\ (items = <<>> \/ leaf >= leaf_count))
    /\ items = <<>> => nodes = <<>> /\ leaf_count = 0
    /\ pc = "panic" => proof_ = None
    /\ pc = "proved" => proof_ # None /\ leaf < leaf_count

\* proof was called with index = leaf_count on a tree and panicked.
C7_Witness ==
    /\ pc = "panic"
    /\ items # <<>>
    /\ leaf = leaf_count
    /\ Len(nodes) = 2 * leaf_count - 1

\* C8 (shape): leaf_count is the smallest power of two >= items.len(); the
\* buffer has 2*leaf_count - 1 nodes with the leaves first and the root last;
\* level k >= 1 starts at 2*leaf_count - leaf_count / 2^(k-1); the loop of new
\* runs log2(leaf_count) times and every chunk it pairs has two nodes.
C8_Shape ==
    /\ pc = "new" =>
          /\ iterations >= 1 =>
                index = 2 * leaf_count - leaf_count \div Pow2(iterations - 1)
          /\ iterations = 0 => index = 0
          /\ level_len = leaf_count \div Pow2(iterations)
          /\ Len(nodes) = index + level_len
          /\ level_len > 1 =>
                \A c \in DOMAIN chunks2(SubSeq(nodes, index + 1, index + level_len)) :
                    Len(chunks2(SubSeq(nodes, index + 1, index + level_len))[c]) = 2
    /\ pc = "built" => iterations = Log2(leaf_count)
    /\ Built =>
          /\ IsPow2(leaf_count)
          /\ leaf_count >= Len(items)
          /\ leaf_count > 1 => leaf_count \div 2 < Len(items)
          /\ IsPow2(Len(items)) => leaf_count = Len(items)
          /\ Len(nodes) = 2 * leaf_count - 1
          /\ SubSeq(nodes, 1, leaf_count) =
                [j \in 1..leaf_count |-> RefNode(items, 0, j - 1)]
          /\ At(nodes, 2 * leaf_count - 2) = root(nodes)

\* The loop of new is in its third iteration on a tree of 16 or more leaves.
C8_Witness ==
    /\ pc = "new"
    /\ leaf_count >= 16
    /\ iterations = 2
    /\ level_len > 1

\* C9 (trees of up to 8 leaves): proof(i) is the root with the siblings of
\* leaf i's ancestors, leaf to root, Right at even and Left at odd positions;
\* it validates its own item and no item with another hash.  For 8 distinct
\* items the paths of leaves 0, 1, 3 and 6 are the ones the test lists.
C9_SmallTreeProofs ==
    leaf_count <= 8 =>
        /\ pc \in {"proved", "validated"} =>
              proof_ = [root |-> RefNode(items, Log2(leaf_count), 0),
                        path |-> RefPath(items, leaf_count, leaf)]
        /\ ValidatedGenuine =>
              (valid <=> hash(vitem) = hash(EffectiveItem(items, leaf)))
        /\ pc = "proved" /\ Len(items) = 8 =>
              LET H(a) == RefNode(items, 0, a)
                  H2(a) == RefNode(items, 1, a \div 2)
                  H4(a) == RefNode(items, 2, a \div 4)
                  R(h) == [side |-> "Right", hash |-> h]
                  L(h) == [side |-> "Left", hash |-> h]
              IN  /\ leaf = 0 => proof_.path = <<R(H(1)), R(H2(2)), R(H4(4))>>
                  /\ leaf = 1 => proof_.path = <<L(H(0)), R(H2(2)), R(H4(4))>>
                  /\ leaf = 3 => proof_.path = <<L(H(2)), L(H2(0)), R(H4(4))>>
                  /\ leaf = 6 => proof_.path = <<R(H(7)), L(H2(4)), L(H4(0))>>

\* proof(6) of a tree of 8 distinct items has validated the item at index 6.
C9_Witness ==
    /\ ValidatedGenuine
    /\ items = DistinctItems(8)
    /\ leaf = 6
    /\ vitem = items[7]
    /\ valid

\* C10 (safety of proof): in every iteration of the proof loop the working
\* index is >= prev_level_len, >= 1 when odd and <= 2*leaf_count - 3 when even;
\* proof never panics for index < leaf_count, runs log2(leaf_count) iterations
\* and leaves the tree as new built it.
C10_ProofSafe ==
    /\ pc = "proof" /\ level_len > 1 =>
          /\ index >= prev_level_len
          /\ index % 2 = 1 => index >= 1
          /\ index % 2 = 0 => index + 1 <= 2 * leaf_count - 2
    /\ pc # "wrapped"
    /\ pc = "panic" => items = <<>> \/ leaf >= leaf_count
    /\ pc = "proof" => iterations <= Log2(leaf_count)
    /\ pc = "proved" =>
          /\ iterations = Log2(leaf_count)
          /\ Len(proof_.path) = Log2(leaf_count)
    /\ pc \in {"proof", "proved"} =>
          /\ nodes = new(items).nodes
          /\ leaf_count = new(items).leaf_count

\* proof has returned for the last leaf of a tree of 64 leaves.
C10_Witness ==
    /\ pc = "proved"
    /\ leaf_count = 64
    /\ leaf = 63
    /\ iterations = 6

====
